---- MODULE Spec2Model ----
(***************************************************************************)
(* Batch upload pipeline of photo_uploader.py: handle_batch_upload, the    *)
(* synchronous and background chunk loops, process_files_batch, the        *)
(* eviction timer and the batch_status poll.                               *)
(*                                                                         *)
(* File names are sequences of one-character strings, so that the name     *)
(* functions (allowed_file, secure_filename, os.path.splitext, the         *)
(* f"{name}_{counter}{ext}" probe) are computed character by character.    *)
(***************************************************************************)
EXTENDS Integers, Sequences, FiniteSets, TLC

(***************************************************************************)
(* Bounds of the model.                                                    *)
(***************************************************************************)
\* largest number of files in one submitted batch
MaxFiles == 3
\* largest configured chunk size (batch_size)
MaxBatchSize == 2
\* largest step by which the clock advances at once
Quantum == 150
\* the clock stops advancing here
MaxTime == 450

(***************************************************************************)
(* Program constants.                                                      *)
(***************************************************************************)
\* threading.Timer(300, ...)
EvictDelay == 300

\* the longest side, in pixels, of the images and of the maxima tried
MaxSide == 4

\* lines 77-78: the default max_width and max_height
DefaultMaxWidth == 1920
DefaultMaxHeight == 1080

(***************************************************************************)
(* File names.                                                             *)
(***************************************************************************)
Photo == <<"p", "h", "o", "t", "o", ".", "j", "p", "g">>
Photo1 == <<"p", "h", "o", "t", "o", "_", "1", ".", "j", "p", "g">>
Photo2 == <<"p", "h", "o", "t", "o", "_", "2", ".", "j", "p", "g">>
Photo3 == <<"p", "h", "o", "t", "o", "_", "3", ".", "j", "p", "g">>
Malware == <<"m", "a", "l", "w", "a", "r", "e", ".", "e", "x", "e">>
EmptyName == <<>>

\* names for the extension check: no dot at all, nothing after the last
\* dot, a disallowed extension in capitals
Notes == <<"n", "o", "t", "e", "s">>
TrailingDot == <<"a", ".">>
ShoutedExe == <<"r", "u", "n", ".", "E", "X", "E">>

\* the names an incoming file may carry when the extension check is examined
ExtensionNames == {Photo, Malware, Notes, TrailingDot, ShoutedExe}

\* names chosen by an attacker: a parent-directory prefix, an absolute path,
\* a backslash path, a name that is nothing but dots and an extension
Traversal == <<".", ".", "/", "p", ".", "j", "p", "g">>
Absolute == <<"/", "p", ".", "j", "p", "g">>
Backslashed == <<".", ".", "\\", "p", ".", "g", "i", "f">>
DotsOnly == <<".", ".", "j", "p", "g">>
HostileNames == {Traversal, Absolute, Backslashed, DotsOnly}

\* the names an incoming file may carry
IncomingNames == {Photo, Malware, EmptyName}

\* the contents of the upload directory when the server starts
InitialDirs == {{}, {Photo1}}

\* config['upload']['allowed_extensions']
ALLOWED_EXTENSIONS ==
    { <<"p", "n", "g">>, <<"j", "p", "g">>, <<"j", "p", "e", "g">>,
      <<"g", "i", "f">>, <<"w", "e", "b", "p">> }

UpperCase ==
    {"A", "B", "C", "D", "E", "F", "G", "H", "I", "J", "K", "L", "M",
     "N", "O", "P", "Q", "R", "S", "T", "U", "V", "W", "X", "Y", "Z"}
LowerCase ==
    {"a", "b", "c", "d", "e", "f", "g", "h", "i", "j", "k", "l", "m",
     "n", "o", "p", "q", "r", "s", "t", "u", "v", "w", "x", "y", "z"}
DigitChars == {"0", "1", "2", "3", "4", "5", "6", "7", "8", "9"}

UpperSeq == <<"A", "B", "C", "D", "E", "F", "G", "H", "I", "J", "K", "L", "M",
              "N", "O", "P", "Q", "R", "S", "T", "U", "V", "W", "X", "Y", "Z">>
LowerSeq == <<"a", "b", "c", "d", "e", "f", "g", "h", "i", "j", "k", "l", "m",
              "n", "o", "p", "q", "r", "s", "t", "u", "v", "w", "x", "y", "z">>

\* str.lower() on one character
LowerChar(c) ==
    IF c \in UpperCase
    THEN LowerSeq[CHOOSE i \in DOMAIN UpperSeq : UpperSeq[i] = c]
    ELSE c

\* str.lower()
Lower(s) == [i \in DOMAIN s |-> LowerChar(s[i])]

\* index of the last "." of s, 0 when there is none
LastDot(s) ==
    IF \E i \in DOMAIN s : s[i] = "."
    THEN CHOOSE i \in DOMAIN s :
            /\ s[i] = "."
            /\ \A j \in DOMAIN s : s[j] = "." => j <= i
    ELSE 0

\* mutant of allowed_file: any name with a dot passes
allowed_file_any_extension(filename) == LastDot(filename) > 0

\* allowed_file(filename)
allowed_file(filename) ==
    IF filename = <<>> \/ LastDot(filename) = 0
    THEN FALSE
    ELSE Lower(SubSeq(filename, LastDot(filename) + 1, Len(filename)))
            \in ALLOWED_EXTENSIONS

\* characters that survive werkzeug's _filename_ascii_strip_re
SafeChars == UpperCase \cup LowerCase \cup DigitChars \cup {"_", ".", "-"}

IsSafeChar(c) == c \in SafeChars

\* filename.replace(os.sep, " ")
ReplaceSep(s) == [i \in DOMAIN s |-> IF s[i] = "/" THEN " " ELSE s[i]]

\* "_".join(s.split()): runs of blanks become one "_", outer blanks vanish
RECURSIVE JoinWords(_, _, _)
JoinWords(s, acc, pending) ==
    IF s = <<>> THEN acc
    ELSE IF Head(s) = " "
         THEN JoinWords(Tail(s), acc, acc # <<>>)
         ELSE JoinWords(Tail(s),
                        (IF pending THEN acc \o <<"_">> ELSE acc) \o <<Head(s)>>,
                        FALSE)

\* str.strip("._")
RECURSIVE StripLeft(_)
StripLeft(s) ==
    IF s # <<>> /\ Head(s) \in {".", "_"} THEN StripLeft(Tail(s)) ELSE s

RECURSIVE StripRight(_)
StripRight(s) ==
    IF s # <<>> /\ s[Len(s)] \in {".", "_"}
    THEN StripRight(SubSeq(s, 1, Len(s) - 1))
    ELSE s

\* mutant of secure_filename: the client's name is used as it came
secure_filename_unchanged(filename) == filename

\* werkzeug.utils.secure_filename(filename), on ASCII names
secure_filename(filename) ==
    StripRight(StripLeft(
        SelectSeq(JoinWords(ReplaceSep(filename), <<>>, FALSE), IsSafeChar)))

\* os.path.splitext(filename): the extension starts at the last dot, unless
\* only dots precede it
splitext(filename) ==
    LET d == LastDot(filename) IN
    IF d > 0 /\ \E j \in 1..(d - 1) : filename[j] # "."
    THEN <<SubSeq(filename, 1, d - 1), SubSeq(filename, d, Len(filename))>>
    ELSE <<filename, <<>>>>

DigitSeq == <<"0", "1", "2", "3", "4", "5", "6", "7", "8", "9">>

\* str(counter) for counter >= 0
RECURSIVE IntToStr(_)
IntToStr(n) ==
    IF n < 10 THEN <<DigitSeq[n + 1]>>
    ELSE IntToStr(n \div 10) \o <<DigitSeq[(n % 10) + 1]>>

\* f"{name}_{counter}{ext}"
Probe(name, counter, ext) == name \o <<"_">> \o IntToStr(counter) \o ext

\* lines 591-597: the while loop probing stem_1.ext, stem_2.ext, ...
RECURSIVE ProbeLoop(_, _, _, _)
ProbeLoop(names, name, ext, counter) ==
    IF Probe(name, counter, ext) \in names
    THEN ProbeLoop(names, name, ext, counter + 1)
    ELSE Probe(name, counter, ext)

\* mutant of ResolveName: the probe counter starts at 0
ResolveNameFromZero(names, filename) ==
    IF filename \in names
    THEN ProbeLoop(names, splitext(filename)[1], splitext(filename)[2], 0)
    ELSE filename

\* mutant of ResolveName: no existence check, the sanitized name is used
ResolveNameOverwrite(names, filename) == filename

\* lines 588-597: the name process_files_batch saves under, given the names
\* present in the upload directory
ResolveName(names, filename) ==
    IF filename \in names
    THEN ProbeLoop(names, splitext(filename)[1], splitext(filename)[2], 1)
    ELSE filename


(***************************************************************************)
(* State.                                                                  *)
(***************************************************************************)
VARIABLES
    batch_upload_status,  \* the global dict: batch id -> Batch Status Record
    disk,                 \* the upload directory: file name -> content
    worker,               \* per submitted batch: the thread of control running it
    timers,               \* started threading.Timer objects not yet fired
    now,                  \* the clock read by datetime.now() and the timers
    poll,                 \* one client polling /batch-status/<batch_id>
    next_id,              \* the batch ids 1..next_id-1 have been issued
    requests_left,        \* upload requests the environment has still to send
    terminal_at,          \* history: when a record's status first became terminal
    threads_started,      \* history: batch ids a background Thread was started for
    image                 \* the image file one call of resize_image works on

vars == <<batch_upload_status, disk, worker, timers, now, poll, next_id,
          requests_left, terminal_at, threads_started, image>>

\* no call of resize_image is being looked at
NoImage == [pc |-> "none"]

\* an incoming file (a FileStorage): only its filename matters to the code
IncomingFiles == {[filename |-> f] : f \in IncomingNames}

\* the file lists a request may carry
FileLists == UNION {[1..n -> IncomingFiles] : n \in 0..MaxFiles}

Terminal == {"completed", "error"}

Min(a, b) == IF a <= b THEN a ELSE b

\* a batch id no request was ever given
UnknownId == 0

IssuedIds == 1..(next_id - 1)

\* mutant of CeilDiv: the division rounds down
FloorDiv(total_files, batch_size) == total_files \div batch_size

\* line 420: ceiling division
CeilDiv(total_files, batch_size) == (total_files + batch_size - 1) \div batch_size

\* lines 426-436: the record handle_batch_upload stores
NewRecord(total_files, batch_size) ==
    [ total_files   |-> total_files,
      total_batches |-> CeilDiv(total_files, batch_size),
      current_batch |-> 0,
      uploaded      |-> 0,
      skipped       |-> 0,
      errors        |-> 0,
      completed     |-> FALSE,
      start_time    |-> now,
      status        |-> "processing" ]

\* mutant of UseBackground: the threshold itself already goes to the background
UseBackgroundAtThreshold(total_files, batch_size) == total_files >= batch_size * 2

\* line 441: the background path is taken for very large uploads
UseBackground(total_files, batch_size) == total_files > batch_size * 2

\* the locals of process_batch_synchronous / process_batch_background and of
\* the process_files_batch call they are in
NewWorker(path, files, batch_size, total_batches) ==
    [ path           |-> path,
      pc             |-> "loop",
      files          |-> files,
      batch_size     |-> batch_size,
      total_batches  |-> total_batches,
      batch_num      |-> 0,
      end_idx        |-> 0,
      i              |-> 0,
      uploaded_count |-> 0,
      skipped_count  |-> 0,
      error_count    |-> 0,
      file_path      |-> <<>>,
      \* history, not read by any action
      dir_before     |-> {},
      chunks_added   |-> 0,
      log            |-> <<>> ]

\* the thread of control has returned: its locals are gone
Finished(w) == [NewWorker(w.path, <<>>, 0, 0) EXCEPT !.pc = "done"]

\* mutant of WriteField: one dict is shared by all batches, the write shows
\* in every stored record
WriteFieldShared(id, field, value) ==
    [b \in DOMAIN batch_upload_status |->
        [batch_upload_status[b] EXCEPT ![field] = value]]

\* a write through the worker's reference `status`: it reaches the store
\* only while the dict is still stored under batch_id
WriteField(id, field, value) ==
    IF id \in DOMAIN batch_upload_status
    THEN [batch_upload_status EXCEPT ![id][field] = value]
    ELSE batch_upload_status

Init ==
    /\ batch_upload_status = <<>>
    /\ \E names \in InitialDirs :
          disk = [f \in names |-> [by |-> <<0, 0>>, state |-> "stored"]]
    /\ worker = <<>>
    /\ timers = {}
    /\ now = 0
    /\ poll = [pc |-> "idle", batch_id |-> UnknownId, response |-> [kind |-> "none"]]
    /\ next_id = 1
    /\ requests_left = 1
    /\ terminal_at = <<>>
    /\ threads_started = {}
    /\ image = NoImage

(***************************************************************************)
(* handle_batch_upload, lines 416-451.                                     *)
(***************************************************************************)
\* mutant of handle_batch_upload: the worker is started for a batch whose
\* record is not stored
handle_batch_upload_unrecorded(files, batch_size) ==
    LET batch_id == next_id
        background == UseBackground(Len(files), batch_size)
    IN
    /\ requests_left > 0
    /\ requests_left' = requests_left - 1
    /\ next_id' = next_id + 1
    /\ worker' = worker @@
          (batch_id :> NewWorker(IF background THEN "background" ELSE "synchronous",
                                 files, batch_size, CeilDiv(Len(files), batch_size)))
    /\ threads_started' =
          IF background THEN threads_started \cup {batch_id} ELSE threads_started
    /\ UNCHANGED <<batch_upload_status, disk, timers, now, poll, terminal_at, image>>

handle_batch_upload(files, batch_size) ==
    LET batch_id == next_id
        rec == NewRecord(Len(files), batch_size)
        background == UseBackground(Len(files), batch_size)
    IN
    /\ requests_left > 0
    /\ requests_left' = requests_left - 1
    /\ next_id' = next_id + 1
    /\ batch_upload_status' = batch_upload_status @@ (batch_id :> rec)
    /\ worker' = worker @@
          (batch_id :> NewWorker(IF background THEN "background" ELSE "synchronous",
                                 files, batch_size, rec.total_batches))
    /\ threads_started' =
          IF background THEN threads_started \cup {batch_id} ELSE threads_started
    /\ UNCHANGED <<disk, timers, now, poll, terminal_at, image>>


(***************************************************************************)
(* The chunk loop, lines 465-479 (synchronous) and 516-533 (background).   *)
(***************************************************************************)
\* mutant of CurrentBatch: the cursor runs one chunk ahead
CurrentBatchAhead(batch_num) == batch_num + 2

\* line 473 / 524: the value written to status['current_batch']
CurrentBatch(batch_num) == batch_num + 1

\* mutant of StartIdx: every chunk starts at the first file again
StartIdxRewound(batch_num, batch_size) == 0

\* line 466 / 517: start_idx = batch_num * batch_size
StartIdx(batch_num, batch_size) == batch_num * batch_size

\* line 467 / 518: end_idx = min(start_idx + batch_size, len(files))
EndIdx(start_idx, batch_size, total_files) == Min(start_idx + batch_size, total_files)

\* lines 465-473 / 516-524: the next iteration of the for loop, up to and
\* including the write of current_batch; or the end of the loop
LoopHead(id) ==
    LET w == worker[id]
        start_idx == StartIdx(w.batch_num, w.batch_size)
    IN
    /\ w.pc = "loop"
    /\ IF w.batch_num < w.total_batches
       THEN /\ batch_upload_status' = WriteField(id, "current_batch", CurrentBatch(w.batch_num))
            /\ worker' = [worker EXCEPT ![id] =
                  [w EXCEPT !.pc = "pfb_file",
                            !.i = start_idx + 1,
                            !.end_idx = EndIdx(start_idx, w.batch_size, Len(w.files)),
                            !.uploaded_count = 0,
                            !.skipped_count = 0,
                            !.error_count = 0]]
       ELSE /\ worker' = [worker EXCEPT ![id].pc = "mark_completed"]
            /\ UNCHANGED batch_upload_status
    /\ UNCHANGED <<disk, timers, now, poll, next_id, requests_left,
                   terminal_at, threads_started, image>>

\* one entry of the history of ingestions
LogEntry(w, outcome, path, cleanup, dir_after) ==
    [ idx        |-> w.i,
      chunk      |-> w.batch_num,
      filename   |-> w.files[w.i].filename,
      outcome    |-> outcome,
      file_path  |-> path,
      cleanup    |-> cleanup,
      dir_before |-> w.dir_before,
      dir_after  |-> dir_after ]

\* line 572: `file and file.filename != ''`
HasFilename(file) == file.filename # <<>>

\* line 581: secure_filename(original_filename), tabulated once over the
\* names a file can carry
SecuredName == [f \in IncomingNames \cup ExtensionNames \cup HostileNames |-> secure_filename(f)]

\* lines 571-597 of process_files_batch: the next file of the chunk, up to
\* the resolution of its destination path; or the return of the counts
PfbFile(id) ==
    LET w == worker[id]
        file == w.files[w.i]
        filename == SecuredName[file.filename]
        here == [w EXCEPT !.dir_before = DOMAIN disk]
        next(outcome) ==
            [w EXCEPT !.i = w.i + 1,
                      !.skipped_count =
                          IF outcome = "skipped" THEN w.skipped_count + 1
                          ELSE w.skipped_count,
                      !.log = Append(w.log, LogEntry(here, outcome, <<>>, "none", DOMAIN disk))]
    IN
    /\ w.pc = "pfb_file"
    /\ worker' = [worker EXCEPT ![id] =
          IF w.i > w.end_idx
          THEN [w EXCEPT !.pc = "add_uploaded"]
          ELSE IF ~HasFilename(file) THEN next("ignored")
          ELSE IF ~allowed_file(file.filename) THEN next("skipped")
          ELSE IF filename = <<>> THEN next("skipped")
          ELSE [here EXCEPT !.pc = "pfb_save",
                            !.file_path = ResolveName(DOMAIN disk, filename)]]
    /\ UNCHANGED <<batch_upload_status, disk, timers, now, poll, next_id,
                   requests_left, terminal_at, threads_started,
                   image>>

\* what file.save and resize_image can do
SaveOutcomes == {"ok", "fail_nothing_written", "fail_partly_written"}
ResizeOutcomes == {"ok", "fail"}

\* a file on disk: who wrote it (batch id and index in the batch; <<0, 0>>
\* for a file older than the server) and in what state
Content(id, idx, state) == [by |-> <<id, idx>>, state |-> state]

\* open(path, "wb") and write: creates the file or replaces its content
WriteFile(path, content) ==
    [f \in DOMAIN disk \cup {path} |-> IF f = path THEN content ELSE disk[f]]

\* os.remove(path)
RemoveFile(path) == [f \in DOMAIN disk \ {path} |-> disk[f]]

\* mutant of AfterCall: no try around the file, the exception leaves
\* process_files_batch
AfterCallUncaught(ok, next_pc) == IF ok THEN next_pc ELSE "handler_status"

\* lines 587 and 607: an exception of file.save or resize_image is caught by
\* the try of this file; otherwise the next statement runs
AfterCall(ok, next_pc) == IF ok THEN next_pc ELSE "pfb_except"

\* line 600: file.save(file_path)
PfbSave(id) ==
    LET w == worker[id] IN
    /\ w.pc = "pfb_save"
    /\ \E outcome \in SaveOutcomes :
          /\ disk' = CASE outcome = "ok" ->
                            WriteFile(w.file_path, Content(id, w.i, "saved"))
                       [] outcome = "fail_partly_written" ->
                            WriteFile(w.file_path, Content(id, w.i, "partial"))
                       [] OTHER -> disk
          /\ worker' = [worker EXCEPT ![id].pc = AfterCall(outcome = "ok", "pfb_resize")]
    /\ UNCHANGED <<batch_upload_status, timers, now, poll, next_id,
                   requests_left, terminal_at, threads_started,
                   image>>

\* lines 604-605: resize_image(file_path), which re-raises what it catches
\* (lines 289-291), then uploaded_count += 1
PfbResize(id) ==
    LET w == worker[id] IN
    /\ w.pc = "pfb_resize"
    /\ \E outcome \in ResizeOutcomes :
          /\ outcome = "ok" => w.file_path \in DOMAIN disk
          /\ disk' = IF outcome = "ok"
                   THEN WriteFile(w.file_path, Content(id, w.i, "resized"))
                   ELSE IF w.file_path \in DOMAIN disk
                   THEN WriteFile(w.file_path, Content(id, w.i, "partial"))
                   ELSE disk
          /\ worker' = [worker EXCEPT ![id] =
                IF outcome = "ok"
                THEN [w EXCEPT !.pc = "pfb_file",
                               !.i = w.i + 1,
                               !.uploaded_count = w.uploaded_count + 1,
                               !.file_path = <<>>,
                               !.dir_before = {},
                               !.log = Append(w.log,
                                   LogEntry(w, "uploaded", w.file_path, "none", DOMAIN disk'))]
                ELSE [w EXCEPT !.pc = AfterCall(FALSE, "pfb_file")]]
    /\ UNCHANGED <<batch_upload_status, timers, now, poll, next_id,
                   requests_left, terminal_at, threads_started,
                   image>>

\* mutant of Cleanup: the partly written file is left behind
CleanupForgotten(path, remove_ok) == disk

\* lines 610-615: the file is removed when os.remove succeeds
Cleanup(path, remove_ok) ==
    IF path \in DOMAIN disk /\ remove_ok THEN RemoveFile(path) ELSE disk

\* history: what lines 610-615 did
CleanupKind(path, remove_ok) ==
    IF path \notin DOMAIN disk THEN "nothing_to_remove"
    ELSE IF remove_ok THEN "removed"
    ELSE "remove_failed"

\* lines 607-615: the except branch of one file
PfbExcept(id) ==
    LET w == worker[id] IN
    /\ w.pc = "pfb_except"
    /\ \E remove_ok \in BOOLEAN :
          /\ disk' = Cleanup(w.file_path, remove_ok)
          /\ worker' = [worker EXCEPT ![id] =
                [w EXCEPT !.pc = "pfb_file",
                          !.i = w.i + 1,
                          !.error_count = w.error_count + 1,
                          !.file_path = <<>>,
                          !.dir_before = {},
                          !.log = Append(w.log,
                              LogEntry(w, "error", w.file_path,
                                       CleanupKind(w.file_path, remove_ok),
                                       DOMAIN disk'))]]
    /\ UNCHANGED <<batch_upload_status, timers, now, poll, next_id,
                   requests_left, terminal_at, threads_started,
                   image>>

\* lines 477-479 / 528-530: status[field] += count
AddCount(id, pc, field, count, next_pc) ==
    LET w == worker[id] IN
    /\ w.pc = pc
    /\ batch_upload_status' =
          IF id \in DOMAIN batch_upload_status
          THEN WriteField(id, field, batch_upload_status[id][field] + count)
          ELSE batch_upload_status
    /\ worker' = [worker EXCEPT ![id] =
          IF next_pc \in {"loop", "sleep"}
          THEN [w EXCEPT !.pc = next_pc,
                         !.batch_num =
                             IF next_pc = "loop" THEN w.batch_num + 1 ELSE w.batch_num,
                         !.chunks_added = w.chunks_added + 1]
          ELSE [w EXCEPT !.pc = next_pc]]
    /\ UNCHANGED <<disk, timers, now, poll, next_id, requests_left,
                   terminal_at, threads_started, image>>

\* mutant of AddSkipped: the skipped count of the chunk is not added
AddSkippedLost(id) ==
    AddCount(id, "add_skipped", "skipped", 0, "add_errors")

\* mutant of AddUploaded: the uploaded count of the chunk is added twice
AddUploadedTwice(id) ==
    AddCount(id, "add_uploaded", "uploaded", 2 * worker[id].uploaded_count, "add_skipped")

AddUploaded(id) ==
    AddCount(id, "add_uploaded", "uploaded", worker[id].uploaded_count, "add_skipped")

AddSkipped(id) ==
    AddCount(id, "add_skipped", "skipped", worker[id].skipped_count, "add_errors")

AddErrors(id) ==
    AddCount(id, "add_errors", "errors", worker[id].error_count,
             IF worker[id].path = "background" THEN "sleep" ELSE "loop")

\* mutant of Sleep: the background thread never wakes up
SleepForever(id) ==
    /\ worker[id].pc = "sleep"
    /\ UNCHANGED vars

\* mutant of Sleep: the background loop wakes up one chunk too far
SleepSkipsChunk(id) ==
    /\ worker[id].pc = "sleep"
    /\ worker' = [worker EXCEPT ![id].pc = "loop",
                                ![id].batch_num = worker[id].batch_num + 2]
    /\ UNCHANGED <<batch_upload_status, disk, timers, now, poll, next_id,
                   requests_left, terminal_at, threads_started,
                   image>>

\* line 533: time.sleep(0.1), background path only
Sleep(id) ==
    /\ worker[id].pc = "sleep"
    /\ worker' = [worker EXCEPT ![id].pc = "loop",
                                ![id].batch_num = worker[id].batch_num + 1]
    /\ UNCHANGED <<batch_upload_status, disk, timers, now, poll, next_id,
                   requests_left, terminal_at, threads_started,
                   image>>


(***************************************************************************)
(* Completion, lines 481-499 (synchronous) and 535-543 (background).       *)
(***************************************************************************)
\* history: the first time a status in Terminal is written to a stored record
NoteTerminal(id) ==
    IF id \in DOMAIN batch_upload_status /\ id \notin DOMAIN terminal_at
    THEN terminal_at @@ (id :> now)
    ELSE terminal_at

\* mutant of MarkCompleted: the eviction timer is started here, while the
\* status is still 'processing'
MarkCompletedStartsTimer(id) ==
    /\ worker[id].pc = "mark_completed"
    /\ batch_upload_status' = WriteField(id, "completed", TRUE)
    /\ timers' = timers \cup {[batch_id |-> id, due |-> now + EvictDelay]}
    /\ worker' = [worker EXCEPT ![id].pc = "mark_status"]
    /\ UNCHANGED <<disk, now, poll, next_id, requests_left,
                   terminal_at, threads_started, image>>

\* line 482 / 536: status['completed'] = True
MarkCompleted(id) ==
    /\ worker[id].pc = "mark_completed"
    /\ batch_upload_status' = WriteField(id, "completed", TRUE)
    /\ worker' = [worker EXCEPT ![id].pc = "mark_status"]
    /\ UNCHANGED <<disk, timers, now, poll, next_id, requests_left,
                   terminal_at, threads_started, image>>

\* mutant of MarkStatus: the status is not written
MarkStatusSkipped(id) ==
    /\ worker[id].pc = "mark_status"
    /\ worker' = [worker EXCEPT ![id].pc = "mark_end_time"]
    /\ UNCHANGED <<batch_upload_status, disk, timers, now, poll, next_id,
                   requests_left, terminal_at, threads_started,
                   image>>

\* line 483 / 537: status['status'] = 'completed'
MarkStatus(id) ==
    /\ worker[id].pc = "mark_status"
    /\ batch_upload_status' = WriteField(id, "status", "completed")
    /\ terminal_at' = NoteTerminal(id)
    /\ worker' = [worker EXCEPT ![id].pc = "mark_end_time"]
    /\ UNCHANGED <<disk, timers, now, poll, next_id, requests_left, threads_started, image>>

\* line 484 / 538: status['end_time'] = datetime.now(), a new key of the dict
MarkEndTime(id) ==
    /\ worker[id].pc = "mark_end_time"
    /\ batch_upload_status' =
          IF id \in DOMAIN batch_upload_status
          THEN [batch_upload_status EXCEPT ![id] =
                   [k \in DOMAIN @ \cup {"end_time"} |->
                       IF k = "end_time" THEN now ELSE @[k]]]
          ELSE batch_upload_status
    /\ worker' = [worker EXCEPT ![id].pc =
          IF worker[id].path = "synchronous" THEN "feedback" ELSE "start_timer"]
    /\ UNCHANGED <<disk, timers, now, poll, next_id, requests_left,
                   terminal_at, threads_started, image>>

\* lines 487-494: the flash messages of the synchronous path
Feedback(id) ==
    /\ worker[id].pc = "feedback"
    /\ worker' = [worker EXCEPT ![id].pc = "start_timer"]
    /\ UNCHANGED <<batch_upload_status, disk, timers, now, poll, next_id,
                   requests_left, terminal_at, threads_started,
                   image>>

\* line 497 / 543: threading.Timer(300, lambda: batch_upload_status.pop(...)).start()
StartTimer(id) ==
    /\ worker[id].pc = "start_timer"
    /\ timers' = timers \cup {[batch_id |-> id, due |-> now + EvictDelay]}
    /\ worker' = [worker EXCEPT ![id] =
          IF @.path = "synchronous" THEN [@ EXCEPT !.pc = "respond"] ELSE Finished(@)]
    /\ UNCHANGED <<batch_upload_status, disk, now, poll, next_id,
                   requests_left, terminal_at, threads_started,
                   image>>

\* line 499: return redirect(url_for('index'))
Respond(id) ==
    /\ worker[id].pc = "respond"
    /\ worker' = [worker EXCEPT ![id] = Finished(@)]
    /\ UNCHANGED <<batch_upload_status, disk, timers, now, poll, next_id,
                   requests_left, terminal_at, threads_started,
                   image>>

(***************************************************************************)
(* The except branches, lines 501-507 and 545-549.                         *)
(***************************************************************************)
\* where an exception can be raised inside the try block without being
\* caught by the per-file try of process_files_batch: in process_files_batch
\* outside that try (lines 571-586), in flash (487-492), in Timer.start
\* (497 / 543: "can't start new thread") and in redirect (499)
RaisePoints(path) ==
    IF path = "synchronous"
    THEN {"pfb_file", "feedback", "start_timer", "respond"}
    ELSE {"pfb_file", "start_timer"}

\* an exception reaches `except Exception as e` (line 501 / 545)
Raise(id) ==
    /\ worker[id].pc \in RaisePoints(worker[id].path)
    /\ worker' = [worker EXCEPT ![id].pc = "handler_status",
                                ![id].file_path = <<>>,
                                ![id].dir_before = {}]
    /\ UNCHANGED <<batch_upload_status, disk, timers, now, poll, next_id,
                   requests_left, terminal_at, threads_started,
                   image>>

\* mutant of HandlerStatus: the except branch leaves the status as it is
HandlerStatusKept(id) ==
    /\ worker[id].pc = "handler_status"
    /\ worker' = [worker EXCEPT ![id].pc = "handler_completed"]
    /\ UNCHANGED <<batch_upload_status, disk, timers, now, poll, next_id,
                   requests_left, terminal_at, threads_started,
                   image>>

\* lines 503-504 / 547-548: if batch_id in batch_upload_status: status = 'error'
HandlerStatus(id) ==
    /\ worker[id].pc = "handler_status"
    /\ batch_upload_status' = WriteField(id, "status", "error")
    /\ terminal_at' = NoteTerminal(id)
    /\ worker' = [worker EXCEPT ![id] =
          IF id \in DOMAIN batch_upload_status THEN [@ EXCEPT !.pc = "handler_completed"]
          ELSE IF @.path = "synchronous" THEN [@ EXCEPT !.pc = "handler_respond"]
          ELSE Finished(@)]
    /\ UNCHANGED <<disk, timers, now, poll, next_id, requests_left, threads_started, image>>

\* line 505 / 549: batch_upload_status[batch_id]['completed'] = True
HandlerCompleted(id) ==
    /\ worker[id].pc = "handler_completed"
    /\ batch_upload_status' = WriteField(id, "completed", TRUE)
    /\ worker' = [worker EXCEPT ![id] =
          IF @.path = "synchronous" THEN [@ EXCEPT !.pc = "handler_respond"]
          ELSE Finished(@)]
    /\ UNCHANGED <<disk, timers, now, poll, next_id, requests_left,
                   terminal_at, threads_started, image>>

\* lines 506-507: flash and redirect of the synchronous path
HandlerRespond(id) ==
    /\ worker[id].pc = "handler_respond"
    /\ worker' = [worker EXCEPT ![id] = Finished(@)]
    /\ UNCHANGED <<batch_upload_status, disk, timers, now, poll, next_id,
                   requests_left, terminal_at, threads_started,
                   image>>

(***************************************************************************)
(* The eviction timer and the clock.                                       *)
(***************************************************************************)
\* the timer's function: batch_upload_status.pop(batch_id, None)
Pop(id) == [k \in DOMAIN batch_upload_status \ {id} |-> batch_upload_status[k]]

\* a started timer fires once its interval has passed
Evict(t) ==
    /\ t \in timers
    /\ t.due <= now
    /\ batch_upload_status' = Pop(t.batch_id)
    /\ timers' = timers \ {t}
    /\ UNCHANGED <<disk, worker, now, poll, next_id, requests_left,
                   terminal_at, threads_started, image>>

\* Time passes while no thread is computing and some record is stored; a due
\* timer fires before the clock moves past it.
Tick ==
    /\ now < MaxTime
    /\ DOMAIN batch_upload_status # {}
    /\ \A id \in DOMAIN worker : worker[id].pc = "done"
    /\ \A t \in timers : t.due > now
    /\ \E later \in (now + 1)..(now + Quantum) :
          /\ later = now + Quantum \/ \E t \in timers : t.due = later
          /\ \A t \in timers : later <= t.due
          /\ now' = later
    /\ UNCHANGED <<batch_upload_status, disk, worker, timers, poll, next_id,
                   requests_left, terminal_at, threads_started,
                   image>>

(***************************************************************************)
(* batch_status, lines 796-816.                                            *)
(***************************************************************************)
\* datetime.isoformat(): the time as a string
isoformat(t) == IntToStr(t)

\* lines 802-816: the JSON body built from a copy of the record, its times
\* converted to strings and progress_percent added
StatusBody(rec) ==
    [k \in DOMAIN rec \cup {"progress_percent"} |->
        IF k = "progress_percent"
        THEN IF rec.total_batches > 0
             THEN (rec.current_batch * 100) \div rec.total_batches
             ELSE 0
        ELSE IF k \in {"start_time", "end_time"} THEN isoformat(rec[k])
        ELSE rec[k]]

\* line 799: the membership test; an absent id is answered with 404
PollCheck(id) ==
    /\ poll.pc = "idle"
    /\ poll' = IF id \notin DOMAIN batch_upload_status
               THEN [pc |-> "responded", batch_id |-> id,
                     response |-> [kind |-> "not_found"]]
               ELSE [pc |-> "checked", batch_id |-> id, response |-> [kind |-> "none"]]
    /\ UNCHANGED <<batch_upload_status, disk, worker, timers, now, next_id,
                   requests_left, terminal_at, threads_started,
                   image>>

\* mutant of PollRead: no copy is taken, the conversions are applied to the
\* stored record
PollReadInPlace ==
    /\ poll.pc = "checked"
    /\ poll' = [poll EXCEPT
          !.pc = "responded",
          !.response =
              IF poll.batch_id \in DOMAIN batch_upload_status
              THEN [kind |-> "data", body |-> StatusBody(batch_upload_status[poll.batch_id])]
              ELSE [kind |-> "exception"]]
    /\ batch_upload_status' =
          IF poll.batch_id \in DOMAIN batch_upload_status
          THEN [batch_upload_status EXCEPT ![poll.batch_id] = StatusBody(@)]
          ELSE batch_upload_status
    /\ UNCHANGED <<disk, worker, timers, now, next_id,
                   requests_left, terminal_at, threads_started,
                   image>>

\* lines 802-816: batch_upload_status[batch_id].copy() raises KeyError when
\* the key is gone; otherwise the body is built and returned
PollRead ==
    /\ poll.pc = "checked"
    /\ poll' = [poll EXCEPT
          !.pc = "responded",
          !.response =
              IF poll.batch_id \in DOMAIN batch_upload_status
              THEN [kind |-> "data", body |-> StatusBody(batch_upload_status[poll.batch_id])]
              ELSE [kind |-> "exception"]]
    /\ UNCHANGED <<batch_upload_status, disk, worker, timers, now, next_id,
                   requests_left, terminal_at, threads_started,
                   image>>

\* lines 821-823 of batch_progress_page: the membership test; an absent id
\* is answered with a flash message and a redirect
PageCheck(id) ==
    /\ poll.pc = "idle"
    /\ poll' = IF id \notin DOMAIN batch_upload_status
               THEN [pc |-> "responded", batch_id |-> id,
                     response |-> [kind |-> "redirect"]]
               ELSE [pc |-> "page_checked", batch_id |-> id,
                     response |-> [kind |-> "none"]]
    /\ UNCHANGED <<batch_upload_status, disk, worker, timers, now, next_id,
                   requests_left, terminal_at, threads_started,
                   image>>

\* lines 825-826: the stored record itself is handed to the template, which
\* reads it; the subscript raises KeyError when the key is gone
PageRead ==
    /\ poll.pc = "page_checked"
    /\ poll' = [poll EXCEPT
          !.pc = "responded",
          !.response =
              IF poll.batch_id \in DOMAIN batch_upload_status
              THEN [kind |-> "page", status |-> batch_upload_status[poll.batch_id]]
              ELSE [kind |-> "exception"]]
    /\ UNCHANGED <<batch_upload_status, disk, worker, timers, now, next_id,
                   requests_left, terminal_at, threads_started,
                   image>>

\* the client has its answer
PollReturn ==
    /\ poll.pc = "responded"
    /\ poll' = [pc |-> "idle", batch_id |-> UnknownId, response |-> [kind |-> "none"]]
    /\ UNCHANGED <<batch_upload_status, disk, worker, timers, now, next_id,
                   requests_left, terminal_at, threads_started,
                   image>>

(***************************************************************************)
(* The specification.                                                      *)
(***************************************************************************)
WorkerStep(id) ==
    \/ LoopHead(id)
    \/ PfbFile(id)
    \/ PfbSave(id)
    \/ PfbResize(id)
    \/ PfbExcept(id)
    \/ AddUploaded(id)
    \/ AddSkipped(id)
    \/ AddErrors(id)
    \/ Sleep(id)
    \/ MarkCompleted(id)
    \/ MarkStatus(id)
    \/ MarkEndTime(id)
    \/ Feedback(id)
    \/ StartTimer(id)
    \/ Respond(id)
    \/ Raise(id)
    \/ HandlerStatus(id)
    \/ HandlerCompleted(id)
    \/ HandlerRespond(id)

\* the steps of the server without any client polling
Next ==
    \/ \E files \in FileLists, batch_size \in 1..MaxBatchSize :
          handle_batch_upload(files, batch_size)
    \/ \E id \in DOMAIN worker : WorkerStep(id)
    \/ \E t \in timers : Evict(t)
    \/ Tick

Spec == Init /\ [][Next]_vars

\* the file lists of the polled server: photo.jpg, any number of times
PhotoLists == {files \in FileLists : \A k \in DOMAIN files : files[k].filename = Photo}

\* the steps of the server with a client polling /batch-status
NextPoll ==
    \/ \E files \in PhotoLists, batch_size \in 1..MaxBatchSize :
          handle_batch_upload(files, batch_size)
    \/ \E id \in DOMAIN worker : WorkerStep(id)
    \/ \E t \in timers : Evict(t)
    \/ Tick
    \/ \E id \in IssuedIds \cup {UnknownId} : PollCheck(id)
    \/ PollRead
    \/ \E id \in IssuedIds \cup {UnknownId} : PageCheck(id)
    \/ PageRead
    \/ PollReturn

SpecPoll == Init /\ [][NextPoll]_vars

\* the steps of the server receiving photos, no client polling
NextPhotos ==
    \/ \E files \in PhotoLists, batch_size \in 1..MaxBatchSize :
          handle_batch_upload(files, batch_size)
    \/ \E id \in DOMAIN worker : WorkerStep(id)
    \/ \E t \in timers : Evict(t)
    \/ Tick

\* the worker threads are scheduled fairly and every call they make returns:
\* a thread that can take a step eventually takes one
Fairness == WF_vars(\E id \in DOMAIN worker : WorkerStep(id))

SpecFair == Init /\ [][NextPhotos]_vars /\ Fairness

\* the file lists of the server receiving names with and without extensions,
\* at most one of the files being a photo
ExtensionLists ==
    {files \in UNION {[1..n -> {[filename |-> f] : f \in ExtensionNames}] :
                          n \in 0..MaxFiles} :
        Cardinality({k \in DOMAIN files : files[k].filename = Photo}) <= 1}

\* the steps of that server
NextNames ==
    \/ \E files \in ExtensionLists, batch_size \in 1..MaxBatchSize :
          handle_batch_upload(files, batch_size)
    \/ \E id \in DOMAIN worker : WorkerStep(id)
    \/ \E t \in timers : Evict(t)
    \/ Tick

SpecNames == Init /\ [][NextNames]_vars

\* lines 426-436 followed by a call of process_batch_synchronous (458) or
\* of process_batch_background (509) on the new record, whichever is asked
\* for: the two functions take the same arguments
StartOnPath(path, files, batch_size) ==
    LET batch_id == next_id
        rec == NewRecord(Len(files), batch_size)
    IN
    /\ requests_left > 0
    /\ requests_left' = requests_left - 1
    /\ next_id' = next_id + 1
    /\ batch_upload_status' = batch_upload_status @@ (batch_id :> rec)
    /\ worker' = worker @@
          (batch_id :> NewWorker(path, files, batch_size, rec.total_batches))
    /\ threads_started' =
          IF path = "background" THEN threads_started \cup {batch_id}
          ELSE threads_started
    /\ UNCHANGED <<disk, timers, now, poll, terminal_at, image>>

\* the steps of a server on which either function runs any batch
NextPaths ==
    \/ \E path \in {"synchronous", "background"}, files \in FileLists,
          batch_size \in 1..MaxBatchSize : StartOnPath(path, files, batch_size)
    \/ \E id \in DOMAIN worker : WorkerStep(id)
    \/ \E t \in timers : Evict(t)
    \/ Tick

SpecPaths == Init /\ [][NextPaths]_vars

\* the file lists of a server under attack: the first file carries any of
\* the hostile names, the others all carry ../p.jpg
HostileLists ==
    {files \in UNION {[1..n -> {[filename |-> f] : f \in HostileNames}] :
                          n \in 1..MaxFiles} :
        \A k \in DOMAIN files : k > 1 => files[k].filename = Traversal}

\* the steps of that server
NextHostile ==
    \/ \E files \in HostileLists, batch_size \in 1..MaxBatchSize :
          handle_batch_upload(files, batch_size)
    \/ \E id \in DOMAIN worker : WorkerStep(id)
    \/ \E t \in timers : Evict(t)
    \/ Tick

SpecHostile == Init /\ [][NextHostile]_vars

(***************************************************************************)
(* resize_image, lines 250-291.                                            *)
(***************************************************************************)
\* a large photo, 4000 pixels wide and 3000 high
LargePhoto == <<4000, 3000>>

\* the sizes (width, height) of the saved images
ImageSizes == ((1..MaxSide) \X (1..MaxSide)) \cup {LargePhoto}

\* the configured maxima (MAX_WIDTH, MAX_HEIGHT): positive integers
MaxSizes == ((1..MaxSide) \X (1..MaxSide)) \cup {<<DefaultMaxWidth, DefaultMaxHeight>>}

\* lines 258-260: what img.getexif() and exif.get(274, 1) give. Without EXIF
\* the orientation reads as 1; orientation_2 stands for every value the
\* code has no branch for; raises_caught is an AttributeError, KeyError or
\* IndexError; raises_other is any other exception of the EXIF parser, such
\* as the SyntaxError of a block that does not start with a TIFF header.
ExifReads ==
    {"no_exif", "orientation_1", "orientation_2", "orientation_3",
     "orientation_6", "orientation_8", "raises_caught", "raises_other"}

\* line 269: except (AttributeError, KeyError, IndexError)
CaughtByExifHandler(read) == read = "raises_caught"

\* lines 261-266: rotate(180) keeps the size; rotate(270, expand=True) and
\* rotate(90, expand=True) exchange width and height
Rotated(size, read) ==
    IF read \in {"orientation_6", "orientation_8"} THEN <<size[2], size[1]>> ELSE size

Abs(x) == IF x < 0 THEN -x ELSE x

Max(a, b) == IF a >= b THEN a ELSE b

\* math.ceil(a / b)
Ceiling(a, b) == (a + b - 1) \div b

\* mutant of thumbnail: only the width is fitted
thumbnail_width_only(size, max) ==
    IF max[1] >= size[1] THEN size
    ELSE <<max[1], Max((max[1] * size[2]) \div size[1], 1)>>

\* line 274: img.thumbnail((MAX_WIDTH, MAX_HEIGHT)). Pillow returns at once
\* when the image fits; otherwise it keeps the side whose bound binds and
\* takes for the other side the floor or the ceiling of the exact value,
\* whichever gives the nearer aspect ratio (the floor on a tie, and when the
\* floor is 0 on the height), at least 1.
thumbnail(size, max) ==
    LET w == size[1]
        h == size[2]
        x == max[1]
        y == max[2]
    IN
    IF x >= w /\ y >= h THEN size
    ELSE IF x * h >= w * y
    THEN LET lo == (y * w) \div h
             hi == Ceiling(y * w, h)
             pick == IF Abs(w * y - lo * h) <= Abs(w * y - hi * h) THEN lo ELSE hi
         IN <<Max(pick, 1), y>>
    ELSE LET lo == (x * h) \div w
             hi == Ceiling(x * h, w)
             pick == IF lo = 0 THEN lo
                     ELSE IF Abs(w * lo - x * h) * hi <= Abs(w * hi - x * h) * lo
                     THEN lo ELSE hi
         IN <<x, Max(pick, 1)>>

\* lines 252-291: the whole call. Image.open raises for a file that is no
\* image; an exception in the EXIF block that line 269 does not name leaves
\* the inner try and reaches line 289, which logs and re-raises; otherwise
\* the image, rotated or not, is fitted and saved over the file.
resize_image(img) ==
    IF ~img.decodes
    THEN [img EXCEPT !.pc = "raised"]
    ELSE IF img.auto_rotate /\ img.exif = "raises_other"
    THEN [img EXCEPT !.pc = "raised"]
    ELSE LET oriented ==
                 IF img.auto_rotate /\ ~CaughtByExifHandler(img.exif)
                 THEN Rotated(img.size, img.exif)
                 ELSE img.size
         IN [img EXCEPT !.pc = "returned",
                        !.oriented = oriented,
                        !.size = thumbnail(oriented, img.max)]

\* a file has been saved and resize_image is about to be called on it
InitImage ==
    /\ batch_upload_status = <<>>
    /\ disk = <<>>
    /\ worker = <<>>
    /\ timers = {}
    /\ now = 0
    /\ poll = [pc |-> "idle", batch_id |-> UnknownId, response |-> [kind |-> "none"]]
    /\ next_id = 1
    /\ requests_left = 0
    /\ terminal_at = <<>>
    /\ threads_started = {}
    /\ \E size \in ImageSizes, max \in MaxSizes, read \in ExifReads,
          decodes \in BOOLEAN, auto_rotate \in BOOLEAN :
          image = [pc |-> "saved", original |-> size, size |-> size,
                   oriented |-> size, exif |-> read, decodes |-> decodes,
                   max |-> max, auto_rotate |-> auto_rotate]

\* line 604: resize_image(file_path)
Normalize ==
    /\ image.pc = "saved"
    /\ image' = resize_image(image)
    /\ UNCHANGED <<batch_upload_status, disk, worker, timers, now, poll, next_id,
                   requests_left, terminal_at, threads_started>>

NextImage == Normalize

SpecImage == InitImage /\ [][NextImage]_vars

\* a server with an empty upload directory that will get two requests
InitTwo ==
    /\ batch_upload_status = <<>>
    /\ disk = <<>>
    /\ worker = <<>>
    /\ timers = {}
    /\ now = 0
    /\ poll = [pc |-> "idle", batch_id |-> UnknownId, response |-> [kind |-> "none"]]
    /\ next_id = 1
    /\ requests_left = 2
    /\ terminal_at = <<>>
    /\ threads_started = {}
    /\ image = NoImage

\* the two requests: three photos in chunks of one, which go to a background
\* thread, then one photo, processed by its request thread meanwhile
TwoLists(nth) == {files \in PhotoLists : Len(files) = IF nth = 1 THEN 3 ELSE 1}

\* the steps of the server handling the two requests concurrently
NextTwo ==
    \/ \E files \in TwoLists(next_id) : handle_batch_upload(files, 1)
    \/ \E id \in DOMAIN worker : WorkerStep(id)
    \/ \E t \in timers : Evict(t)
    \/ Tick

SpecTwo == InitTwo /\ [][NextTwo]_vars


(***************************************************************************)
(* Properties.                                                             *)
(***************************************************************************)
Stored == DOMAIN batch_upload_status

Rec(id) == batch_upload_status[id]

Running == {id \in DOMAIN worker : worker[id].pc # "done"}

\* the worker is inside process_files_batch
PfbPcs == {"pfb_file", "pfb_save", "pfb_resize", "pfb_except"}

\* C1: once a record's status is 'completed', uploaded + skipped + errors
\* equals total_files, whatever files the batch held.
C1_CompletedCountsSumToTotal ==
    \A id \in Stored :
        Rec(id).status = "completed" =>
            Rec(id).uploaded + Rec(id).skipped + Rec(id).errors = Rec(id).total_files

\* C2: a record that reached a terminal state, 'completed' or 'error', is no
\* longer in batch_upload_status once more than 300 time units have passed
\* since then, so that a poll for its id finds nothing.
C2_TerminalRecordEvicted ==
    \A id \in DOMAIN terminal_at :
        now > terminal_at[id] + EvictDelay => id \notin Stored

\* C3: a poll ends with the record's data or with 'not found', never with an
\* exception raised because the record went away under it.
C3_PollNeverRaises == poll.response.kind # "exception"

\* C4: a status in {'completed', 'error'} is never replaced by another one.
C4_TerminalStatusIsFinal ==
    [][\A id \in Stored :
          (Rec(id).status \in Terminal /\ id \in DOMAIN batch_upload_status')
              => batch_upload_status'[id].status = Rec(id).status]_vars

\* C5: a batch runs on a background thread exactly when it holds more than
\* twice batch_size files; otherwise it runs on the caller and no thread is
\* started for it.
C5_BackgroundIffMoreThanTwoChunks ==
    \A id \in Running :
        LET big == Len(worker[id].files) > 2 * worker[id].batch_size IN
        /\ (worker[id].path = "background") <=> big
        /\ (worker[id].path = "synchronous") <=> ~big
        /\ (id \in threads_started) <=> big

\* C5 witness: a batch of exactly twice batch_size files is being run
\* synchronously, no thread started.
C5_Witness ==
    \E id \in Running :
        /\ Len(worker[id].files) = 2 * worker[id].batch_size
        /\ worker[id].path = "synchronous"
        /\ worker[id].pc = "add_uploaded"
        /\ threads_started = {}


\* C6: current_batch stays within 0..total_batches and never decreases
\* while the record is stored.
C6_CurrentBatchBoundedAndMonotone ==
    /\ [](\A id \in Stored :
            /\ 0 <= Rec(id).current_batch
            /\ Rec(id).current_batch <= Rec(id).total_batches)
    /\ [][\A id \in Stored :
            id \in DOMAIN batch_upload_status' =>
                batch_upload_status'[id].current_batch >= Rec(id).current_batch]_vars

\* C6 witness: the cursor has advanced more than once and reached the end.
C6_Witness ==
    \E id \in Stored :
        /\ Rec(id).total_batches >= 2
        /\ Rec(id).current_batch = Rec(id).total_batches

\* the files of the first k chunks of w's batch
FilesOfFirst(w, k) == 1..Min(k * w.batch_size, Len(w.files))

\* the files whose ingestion has ended
Ingested(w) == {w.log[j].idx : j \in DOMAIN w.log}

\* how many files of the first k chunks ended with `outcome`
CountOfFirst(w, k, outcome) ==
    Cardinality({j \in DOMAIN w.log :
                    w.log[j].chunk < k /\ w.log[j].outcome = outcome})

\* the first k chunks have been processed and their counts are in the record
Included(id, k) ==
    /\ FilesOfFirst(worker[id], k) \subseteq Ingested(worker[id])
    /\ worker[id].chunks_added >= k
    /\ Rec(id).uploaded >= CountOfFirst(worker[id], k, "uploaded")
    /\ Rec(id).skipped >= CountOfFirst(worker[id], k, "skipped")
    /\ Rec(id).errors >= CountOfFirst(worker[id], k, "error")

\* C7 as stated: current_batch = k implies that the first k chunks have been
\* processed and counted.
C7_CursorFollowsCounts ==
    \A id \in Running \cap Stored : Included(id, Rec(id).current_batch)

\* C7 as amended: the cursor is advanced before the chunk is processed, so
\* current_batch = k >= 1 implies that the first k-1 chunks have been
\* processed and counted, the k-th being in progress or done; a 'completed'
\* record has all chunks processed and counted.
C7_CursorLeadsCounts ==
    \A id \in Running \cap Stored :
        /\ Rec(id).current_batch >= 1 => Included(id, Rec(id).current_batch - 1)
        /\ worker[id].pc \in PfbPcs \cup {"add_uploaded", "add_skipped", "add_errors"}
              => /\ Rec(id).current_batch = worker[id].batch_num + 1
                 /\ worker[id].chunks_added = worker[id].batch_num
        /\ Rec(id).status = "completed" => Included(id, Rec(id).total_batches)

\* C7 witness: the second chunk is in progress, the cursor says 2, and only
\* the first chunk has been counted.
C7_Witness ==
    \E id \in Running \cap Stored :
        /\ Rec(id).current_batch = 2
        /\ worker[id].pc = "pfb_save"
        /\ worker[id].chunks_added = 1
        /\ Rec(id).skipped = 1
        /\ Len(worker[id].log) = worker[id].batch_size

\* the history of the process_files_batch call w is in or has just left
CallLog(w) == SelectSeq(w.log, LAMBDA e : e.chunk = w.batch_num)

CountOutcome(log, outcome) ==
    Cardinality({j \in DOMAIN log : log[j].outcome = outcome})

\* C8: a failing save or resize is caught per file: it is counted as one
\* error, the worker stays in process_files_batch, what the call stored
\* before stays stored, and the call returns only when every file of the
\* chunk has been attempted, in order, with counts that match.
C8_FailureIsolatedPerFile ==
    /\ [](\A id \in Running :
            LET w == worker[id]
                call == CallLog(w)
            IN
            /\ w.pc \in PfbPcs \cup {"add_uploaded"} =>
                  \A j \in DOMAIN call :
                      call[j].outcome = "uploaded" =>
                          /\ call[j].file_path \in DOMAIN disk
                          /\ disk[call[j].file_path] = Content(id, call[j].idx, "resized")
            /\ w.pc = "add_uploaded" =>
                  /\ Len(call) = w.end_idx - w.batch_num * w.batch_size
                  /\ \A j \in DOMAIN call : call[j].idx = w.batch_num * w.batch_size + j
                  /\ w.uploaded_count = CountOutcome(call, "uploaded")
                  /\ w.skipped_count = CountOutcome(call, "skipped")
                  /\ w.error_count = CountOutcome(call, "error"))
    /\ [][\A id \in Running :
            /\ worker[id].pc \in {"pfb_save", "pfb_resize", "pfb_except"} =>
                  worker'[id].pc \in PfbPcs
            /\ worker[id].pc = "pfb_except" =>
                  /\ worker'[id].error_count = worker[id].error_count + 1
                  /\ worker'[id].i = worker[id].i + 1
                  /\ worker'[id].pc = "pfb_file"]_vars

\* C8 witness: a call has returned in which a file failed and the file after
\* it was stored.
C8_Witness ==
    \E id \in Running :
        /\ worker[id].pc = "add_uploaded"
        /\ \E j \in DOMAIN CallLog(worker[id]) :
              /\ j + 1 \in DOMAIN CallLog(worker[id])
              /\ CallLog(worker[id])[j].outcome = "error"
              /\ CallLog(worker[id])[j + 1].outcome = "uploaded"
        /\ worker[id].error_count = 1
        /\ worker[id].uploaded_count = 1

\* the ingestions that ended in the except branch
Failed(w) == {j \in DOMAIN w.log : w.log[j].outcome = "error"}

\* C9 as stated: after a failed ingestion no file exists at the resolved
\* path and the directory holds the files it held before.
C9_FailureLeavesNoFile ==
    \A id \in Running :
        \A j \in Failed(worker[id]) :
            LET e == worker[id].log[j] IN
            /\ e.file_path \notin e.dir_after
            /\ e.dir_after = e.dir_before

\* C9 as amended: the same, unless os.remove itself failed; then the partly
\* written file stays under the resolved name and nothing else changed.  In
\* both cases the file is counted as an error.
C9_FailureLeavesNoFileUnlessRemoveFails ==
    \A id \in Running :
        LET w == worker[id] IN
        /\ \A j \in Failed(w) :
              LET e == w.log[j] IN
              /\ e.file_path \notin e.dir_before
              /\ e.cleanup # "remove_failed" =>
                    /\ e.file_path \notin e.dir_after
                    /\ e.dir_after = e.dir_before
              /\ e.cleanup = "remove_failed" =>
                    e.dir_after = e.dir_before \cup {e.file_path}
              /\ (w.pc = "pfb_file" /\ j = Len(w.log)) =>
                    /\ e.cleanup # "remove_failed" => DOMAIN disk = e.dir_before
                    /\ e.cleanup = "remove_failed" => disk[e.file_path].state = "partial"
        /\ w.pc = "add_uploaded" =>
              w.error_count = CountOutcome(CallLog(w), "error")

\* C9 witness: a partly written file was removed by the except branch.
C9_Witness ==
    \E id \in Running :
        \E j \in Failed(worker[id]) :
            /\ worker[id].log[j].cleanup = "removed"
            /\ worker[id].log[j].file_path \notin DOMAIN disk
            /\ worker[id].log[j].dir_before # {}
            /\ worker[id].error_count = 1

\* the ingestions that resolved a destination path
Resolved(w) == {j \in DOMAIN w.log : w.log[j].outcome \in {"uploaded", "error"}}

\* C10: the destination is the sanitized name when that name is free, and
\* otherwise stem_k.ext for the smallest k >= 1 that is free; photo.jpg goes
\* to photo.jpg, then photo_1.jpg, then photo_2.jpg; no file that was there
\* before is written to.
C10_SmallestFreeSuffix ==
    \A id \in Running :
        LET w == worker[id] IN
        /\ \A j \in Resolved(w) :
              LET e == w.log[j]
                  wanted == secure_filename(e.filename)
                  stem == splitext(wanted)[1]
                  ext == splitext(wanted)[2]
              IN
              /\ e.file_path \notin e.dir_before
              /\ wanted \notin e.dir_before => e.file_path = wanted
              /\ wanted \in e.dir_before =>
                    \E k \in 1..(Cardinality(e.dir_before) + 1) :
                        /\ e.file_path = Probe(stem, k, ext)
                        /\ \A m \in 1..(k - 1) : Probe(stem, m, ext) \in e.dir_before
              /\ (e.filename = Photo /\ e.dir_before = {}) => e.file_path = Photo
              /\ (e.filename = Photo /\ e.dir_before = {Photo}) => e.file_path = Photo1
              /\ (e.filename = Photo /\ e.dir_before = {Photo1}) => e.file_path = Photo
              /\ (e.filename = Photo /\ e.dir_before = {Photo, Photo1}) =>
                    e.file_path = Photo2
              /\ (e.filename = Photo /\ e.dir_before = {Photo, Photo2}) =>
                    e.file_path = Photo1
              /\ (e.filename = Photo /\ e.dir_before = {Photo, Photo1, Photo2}) =>
                    e.file_path = Photo3
        /\ w.log # <<>> =>
              \A f \in w.log[1].dir_before :
                  f \in DOMAIN disk /\ disk[f] = Content(0, 0, "stored")

\* C10 witness: three files named photo.jpg have been stored in a directory
\* that was empty, as photo.jpg, photo_1.jpg and photo_2.jpg.
C10_Witness ==
    \E id \in Running :
        LET log == worker[id].log IN
        /\ Len(log) = 3
        /\ log[1].dir_before = {}
        /\ \A j \in 1..3 : log[j].filename = Photo /\ log[j].outcome = "uploaded"
        /\ log[1].file_path = Photo
        /\ log[2].file_path = Photo1
        /\ log[3].file_path = Photo2
        /\ DOMAIN disk = {Photo, Photo1, Photo2}

\* the files process_files_batch was given in the call w is in: the slice
\* files[start_idx:end_idx] of line 468 / 519
GivenFiles(w) == w.end_idx - StartIdx(w.batch_num, w.batch_size)

\* C11: a file with an empty filename is counted as skipped and nothing is
\* written for it, so the three counts process_files_batch returns sum to
\* the number of files it was given.
C11_EmptyFilenameCountedSkipped ==
    \A id \in Running :
        LET w == worker[id] IN
        /\ \A j \in DOMAIN w.log :
              w.log[j].filename = EmptyName =>
                  /\ w.log[j].outcome = "skipped"
                  /\ w.log[j].dir_after = w.log[j].dir_before
        /\ w.pc = "add_uploaded" =>
              w.uploaded_count + w.skipped_count + w.error_count = GivenFiles(w)

\* the name has a dot
HasDot(name) == \E k \in DOMAIN name : name[k] = "."

\* what follows the last dot of a name that has one
Extension(name) ==
    LET d == CHOOSE k \in DOMAIN name :
                 name[k] = "." /\ \A m \in (k + 1)..Len(name) : name[m] # "."
    IN [k \in 1..(Len(name) - d) |-> name[d + k]]

\* the name has no extension, or one that is not in the allow-set whatever
\* the case of its letters
Disallowed(name) ==
    \/ ~HasDot(name)
    \/ \A ext \in ALLOWED_EXTENSIONS :
          \/ Len(ext) # Len(Extension(name))
          \/ \E k \in DOMAIN ext : LowerChar(Extension(name)[k]) # ext[k]

\* C12: a file whose non-empty name has no extension, or an extension that
\* is not in the allow-set compared case-insensitively, is counted as skipped
\* and its ingestion leaves the upload directory as it was: nothing written,
\* nothing deleted.  (The empty filename is the subject of C11.)
C12_DisallowedExtensionSkipped ==
    /\ [](\A id \in Running :
            \A j \in DOMAIN worker[id].log :
                LET e == worker[id].log[j] IN
                (e.filename # EmptyName /\ Disallowed(e.filename)) =>
                    /\ e.outcome = "skipped"
                    /\ e.file_path = <<>>
                    /\ e.dir_after = e.dir_before)
    /\ [][\A id \in Running :
            LET w == worker[id] IN
            (/\ w.pc = "pfb_file"
             /\ w.i <= w.end_idx
             /\ w.files[w.i].filename # EmptyName
             /\ Disallowed(w.files[w.i].filename)
             /\ worker'[id].i = w.i + 1)
                => /\ disk' = disk
                   /\ worker'[id].skipped_count = w.skipped_count + 1
                   /\ worker'[id].uploaded_count = w.uploaded_count
                   /\ worker'[id].error_count = w.error_count
                   /\ worker'[id].pc = "pfb_file"]_vars

\* C12 witness: a call has returned that skipped a name without a dot, a
\* name ending in a dot and a name with a disallowed extension in capitals,
\* and the directory still holds exactly what it held at the start.
C12_Witness ==
    \E id \in Running :
        LET w == worker[id] IN
        /\ w.pc = "add_uploaded"
        /\ Len(w.log) = 3
        /\ {w.log[j].filename : j \in 1..3} = {Notes, TrailingDot, ShoutedExe}
        /\ \A j \in 1..3 : w.log[j].outcome = "skipped"
        /\ w.skipped_count >= 1
        /\ DOMAIN disk = {Photo1}
        /\ disk[Photo1] = Content(0, 0, "stored")

\* the worker is past the chunk loop and on the completion marking
MarkPcs == {"mark_completed", "mark_status", "mark_end_time"}

\* C13: within a batch the ingestions happen in submission order, one file
\* after the other without repetition or gap, every chunk being finished
\* before the next one starts; when the chunk loop has ended every submitted
\* file has been ingested exactly once.
C13_IngestionInSubmissionOrder ==
    \A id \in Running :
        LET w == worker[id] IN
        /\ \A j \in DOMAIN w.log :
              /\ w.log[j].idx = j
              /\ w.log[j].filename = w.files[j].filename
              /\ w.log[j].chunk = (j - 1) \div w.batch_size
        /\ w.pc \in PfbPcs =>
              /\ Len(w.log) >= w.batch_num * w.batch_size
              /\ w.i = Len(w.log) + 1
              /\ \A j \in DOMAIN w.log : w.log[j].chunk <= w.batch_num
        /\ w.pc \in MarkPcs =>
              /\ Len(w.log) = Len(w.files)
              /\ {w.log[j].idx : j \in DOMAIN w.log} = DOMAIN w.files

\* C13 witness: a background batch of three chunks has left its loop, its
\* files ingested first, second, third.
C13_Witness ==
    \E id \in Running :
        LET w == worker[id] IN
        /\ w.path = "background"
        /\ w.pc = "mark_completed"
        /\ w.total_batches = 3
        /\ Len(w.log) = 3
        /\ \A j \in 1..3 : w.log[j].idx = j /\ w.log[j].chunk = j - 1

\* C14: total_batches is the ceiling of n / b, and the slices the loop
\* takes, files[k*b : min((k+1)*b, n)] for k = 0..total_batches-1, are
\* non-empty, hold at most b files, follow one another without gap or
\* overlap and end at n.
C14_ChunksPartitionFiles ==
    \A id \in Running :
        LET w == worker[id]
            n == Len(w.files)
            b == w.batch_size
            tb == w.total_batches
            start(k) == StartIdx(k, b)
            end(k) == EndIdx(start(k), b, n)
        IN
        /\ b >= 1
        /\ tb * b >= n
        /\ (tb - 1) * b < n
        /\ n = 0 => tb = 0
        /\ id \in Stored =>
              /\ Rec(id).total_batches = tb
              /\ Rec(id).total_files = n
        /\ \A k \in 0..(tb - 1) :
              /\ start(k) < end(k)
              /\ end(k) - start(k) <= b
              /\ k = 0 => start(k) = 0
              /\ k < tb - 1 => end(k) = start(k + 1)
              /\ k = tb - 1 => end(k) = n
        /\ w.pc \in PfbPcs =>
              /\ w.batch_num < tb
              /\ w.end_idx = end(w.batch_num)
              /\ w.i > start(w.batch_num)
              /\ w.i <= w.end_idx + 1

\* C14 witness: three files in chunks of two; the worker is in the second
\* chunk, which holds the third file only.
C14_Witness ==
    \E id \in Running :
        /\ Len(worker[id].files) = 3
        /\ worker[id].batch_size = 2
        /\ worker[id].total_batches = 2
        /\ worker[id].batch_num = 1
        /\ worker[id].pc = "pfb_save"
        /\ worker[id].i = 3
        /\ worker[id].end_idx = 3

\* the worker is in an except branch of lines 501-507 / 545-549
HandlerPcs == {"handler_status", "handler_completed", "handler_respond"}

\* the three counters and the cursor of a record
Counts(rec) == <<rec.uploaded, rec.skipped, rec.errors, rec.current_batch>>

\* C15: when an exception escapes the chunk loop the record's status
\* becomes 'error', the worker processes no further chunk (it writes no
\* file and ingests nothing more), and the counts the record held when the
\* exception was raised stay as they were, also after the worker has ended.
C15_EscapedExceptionMarksError ==
    /\ [](\A id \in Running \cap Stored :
            worker[id].pc \in {"handler_completed", "handler_respond"} =>
                Rec(id).status = "error")
    /\ [][\A id \in Running :
            LET w == worker[id] IN
            /\ (w.pc \notin HandlerPcs /\ worker'[id].pc = "handler_status") =>
                  /\ batch_upload_status' = batch_upload_status
                  /\ disk' = disk
            /\ w.pc \in HandlerPcs =>
                  /\ worker'[id].pc \in HandlerPcs \cup {"done"}
                  /\ worker'[id].pc # "done" => worker'[id].log = w.log
                  /\ disk' = disk
                  /\ id \in Stored =>
                        /\ id \in DOMAIN batch_upload_status'
                        /\ Counts(batch_upload_status'[id]) = Counts(Rec(id))]_vars
    /\ [][\A id \in Stored :
            (Rec(id).status = "error" /\ id \in DOMAIN batch_upload_status') =>
                /\ batch_upload_status'[id].status = "error"
                /\ Counts(batch_upload_status'[id]) = Counts(Rec(id))]_vars

\* C15 witness: an exception was raised in the second chunk; the record says
\* 'error' and still holds the one upload counted for the first chunk.
C15_Witness ==
    \E id \in Running \cap Stored :
        /\ worker[id].pc = "handler_completed"
        /\ worker[id].batch_num = 1
        /\ Rec(id).status = "error"
        /\ "end_time" \notin DOMAIN Rec(id)
        /\ Rec(id).current_batch = 2
        /\ Rec(id).uploaded = 1
        /\ Rec(id).total_batches >= 2

\* C16: under fair scheduling every batch given to a background thread
\* reaches 'completed' or 'error'; and the steps of a running batch are its
\* own: nothing else in the system changes, stops or removes its worker.
C16_BackgroundBatchTerminates ==
    /\ (threads_started # {}) ~>
          (\A id \in threads_started :
              id \in DOMAIN terminal_at /\ worker[id].pc = "done")
    /\ [][\A id \in Running :
            /\ id \in DOMAIN worker'
            /\ worker'[id] # worker[id] => WorkerStep(id)]_vars

\* C16 witness: a background batch has run to 'completed' and its thread
\* has ended.
C16_Witness ==
    \E id \in threads_started \cap Stored :
        /\ worker[id].pc = "done"
        /\ worker[id].path = "background"
        /\ Rec(id).status = "completed"
        /\ Rec(id).current_batch = Rec(id).total_batches
        /\ Rec(id).uploaded + Rec(id).errors = Rec(id).total_files

\* C17: a synchronous batch is processed on the calling thread, no thread
\* being started for it; when the caller is about to get its response every
\* file has been ingested, and once handle_batch_upload has returned the
\* record is terminal, with current_batch = total_batches when it says
\* 'completed'.
C17_SynchronousReturnsTerminal ==
    \A id \in DOMAIN worker :
        LET w == worker[id] IN
        w.path = "synchronous" =>
            /\ id \notin threads_started
            /\ w.pc = "respond" =>
                  /\ Len(w.log) = Len(w.files)
                  /\ w.chunks_added = w.total_batches
                  /\ Rec(id).status = "completed"
            /\ (w.pc = "done" /\ id \in Stored) =>
                  /\ Rec(id).status \in Terminal
                  /\ Rec(id).completed
                  /\ Rec(id).status = "completed" =>
                        Rec(id).current_batch = Rec(id).total_batches

\* C17 witness: handle_batch_upload has returned from a synchronous batch of
\* two chunks whose record says 'completed'.
C17_Witness ==
    \E id \in Stored :
        /\ worker[id].path = "synchronous"
        /\ worker[id].pc = "done"
        /\ Rec(id).status = "completed"
        /\ Rec(id).total_batches = 2
        /\ Rec(id).current_batch = 2
        /\ Rec(id).uploaded >= 1

\* the record as handle_batch_upload stores it
Fresh(rec) ==
    /\ rec.status = "processing"
    /\ rec.completed = FALSE
    /\ Counts(rec) = <<0, 0, 0, 0>>

\* the record of id has been removed by its eviction timer
Evicted(id) ==
    /\ id \notin Stored
    /\ id \in DOMAIN terminal_at
    /\ now >= terminal_at[id] + EvictDelay

\* C18: on the background path the record is stored, in state 'processing'
\* with counters and cursor 0, by the step that starts the worker; the
\* worker finds its record whenever it runs, and a poll for the id is told
\* 'not found' only once the record has been evicted.
C18_RecordPrecedesWorker ==
    /\ [](\A id \in threads_started :
            /\ id \in Running => id \in Stored
            /\ (id \in Running /\ worker[id].pc = "loop" /\ worker[id].batch_num = 0) =>
                  Fresh(Rec(id))
            /\ id \notin Stored => Evicted(id)
            /\ (poll.batch_id = id /\ poll.response.kind = "not_found") => Evicted(id))
    /\ [][\A id \in threads_started' \ threads_started :
            /\ id \in DOMAIN batch_upload_status'
            /\ Fresh(batch_upload_status'[id])
            /\ worker'[id].pc = "loop"
            /\ worker'[id].batch_num = 0]_vars

\* C18 witness: a poll arriving before the worker's first step is answered
\* with the record in state 'processing', nothing counted yet.
C18_Witness ==
    /\ poll.pc = "responded"
    /\ poll.batch_id \in threads_started
    /\ poll.response.kind = "data"
    /\ poll.response.body.status = "processing"
    /\ poll.response.body.current_batch = 0
    /\ poll.response.body.progress_percent = 0
    /\ worker[poll.batch_id].pc = "loop"
    /\ worker[poll.batch_id].batch_num = 0

\* C19: a record whose status is terminal and whose worker has finished
\* carries an end_time.
C19_TerminalRecordHasEndTime ==
    \A id \in Stored :
        (Rec(id).status \in Terminal /\ worker[id].pc = "done") =>
            "end_time" \in DOMAIN Rec(id)

\* C20: at every moment, also between two writes of the worker, the three
\* counters of a record sum to at most total_files, and no counter ever
\* decreases.
C20_CountersBoundedAndMonotone ==
    /\ [](\A id \in Stored :
            /\ Rec(id).uploaded >= 0 /\ Rec(id).skipped >= 0 /\ Rec(id).errors >= 0
            /\ Rec(id).uploaded + Rec(id).skipped + Rec(id).errors <= Rec(id).total_files)
    /\ [][\A id \in Stored :
            id \in DOMAIN batch_upload_status' =>
                /\ batch_upload_status'[id].uploaded >= Rec(id).uploaded
                /\ batch_upload_status'[id].skipped >= Rec(id).skipped
                /\ batch_upload_status'[id].errors >= Rec(id).errors
                /\ batch_upload_status'[id].total_files = Rec(id).total_files]_vars

\* C20 witness: between the write of uploaded and the write of skipped of a
\* second chunk, with counts of both chunks in play.
C20_Witness ==
    \E id \in Running \cap Stored :
        /\ worker[id].pc = "add_skipped"
        /\ worker[id].batch_num = 1
        /\ worker[id].skipped_count = 1
        /\ Rec(id).uploaded >= 1
        /\ Rec(id).uploaded + Rec(id).skipped + Rec(id).errors < Rec(id).total_files

\* a time as the worker stores it, not yet converted to a string
IsTime(t) == t \in 0..(MaxTime + 1)

\* C22: a step of batch_status or batch_progress_page changes nothing in
\* batch_upload_status; the stored record keeps its times unconverted and
\* never gets a progress_percent, these being made in the copy.
C22_PollLeavesStoreUnchanged ==
    /\ [][poll' # poll => batch_upload_status' = batch_upload_status]_vars
    /\ [](\A id \in Stored :
            /\ "progress_percent" \notin DOMAIN Rec(id)
            /\ IsTime(Rec(id).start_time)
            /\ "end_time" \in DOMAIN Rec(id) => IsTime(Rec(id).end_time))
    /\ [](poll.response.kind = "data" =>
            /\ "progress_percent" \in DOMAIN poll.response.body
            /\ \E t \in 0..(MaxTime + 1) :
                  poll.response.body.start_time = isoformat(t))

\* C22 witness: a poll has been answered with the converted copy of a
\* completed record, which is still stored with its end_time as written.
C22_Witness ==
    /\ poll.pc = "responded"
    /\ poll.response.kind = "data"
    /\ poll.batch_id \in Stored
    /\ "end_time" \in DOMAIN Rec(poll.batch_id)
    /\ "end_time" \in DOMAIN poll.response.body
    /\ poll.response.body.end_time = isoformat(Rec(poll.batch_id).end_time)
    /\ poll.response.body.progress_percent = 100
    /\ Rec(poll.batch_id).status = "completed"

\* C28: in every body that batch_status returns, completed is true exactly
\* when status is 'completed' or 'error'.
C28_CompletedAgreesWithStatus ==
    poll.response.kind = "data" =>
        (poll.response.body.completed <=> poll.response.body.status \in Terminal)

\* the timers started for a batch id and not yet fired
TimersOf(id) == {t \in timers : t.batch_id = id}

\* C29: a timer is started only for a stored record whose status is already
\* terminal and that has no timer yet, one timer at a time; a record leaves
\* batch_upload_status only when a due timer of its id fires, and its status
\* is terminal then; no record with a timer is 'processing'.
C29_OnlyTerminalRecordsEvicted ==
    /\ [](\A t \in timers :
            t.batch_id \in Stored => Rec(t.batch_id).status \in Terminal)
    /\ [][\A t \in timers' \ timers :
            /\ t.batch_id \in Stored
            /\ Rec(t.batch_id).status \in Terminal
            /\ TimersOf(t.batch_id) = {}
            /\ timers' = timers \cup {t}]_vars
    /\ [][\A id \in Stored :
            id \notin DOMAIN batch_upload_status' =>
                /\ Rec(id).status \in Terminal
                /\ \E t \in TimersOf(id) : t.due <= now /\ t \notin timers']_vars

\* C29 witness: a record was marked terminal, its timer fired 300 seconds
\* later and the record is gone.
C29_Witness ==
    \E id \in DOMAIN terminal_at :
        /\ id \notin Stored
        /\ TimersOf(id) = {}
        /\ now >= terminal_at[id] + EvictDelay

\* C30: with one ingestion at a time, a step changes or removes a file only
\* if the file was created by the save of the file the ingestion is working
\* on, in the current call of process_files_batch; so every file present
\* when a name was resolved is present, with the same content, afterwards.
C30_OlderFilesUntouched ==
    /\ [][\A name \in DOMAIN disk :
            (name \notin DOMAIN disk' \/ disk'[name] # disk[name]) =>
                \E id \in Running :
                    LET w == worker[id] IN
                    /\ w.pc \in PfbPcs
                    /\ w.file_path = name
                    /\ name \notin w.dir_before
                    /\ disk[name].by = <<id, w.i>>
                    /\ w.i > StartIdx(w.batch_num, w.batch_size)]_vars
    /\ [](\A id \in Running : \A j \in DOMAIN worker[id].log :
            LET e == worker[id].log[j] IN
            /\ e.dir_before \subseteq e.dir_after
            /\ e.dir_before \subseteq DOMAIN disk)

\* C30 witness: a call has returned after uploading one file and removing
\* the partly written copy of another, and the file that was in the
\* directory before the server started is still there as it was.
C30_Witness ==
    \E id \in Running :
        LET w == worker[id] IN
        /\ w.pc = "add_uploaded"
        /\ \E j \in DOMAIN w.log : w.log[j].outcome = "uploaded"
        /\ \E j \in DOMAIN w.log :
              w.log[j].outcome = "error" /\ w.log[j].cleanup = "removed"
        /\ Photo1 \in DOMAIN disk
        /\ disk[Photo1] = Content(0, 0, "stored")

\* C21: two concurrent ingestions never replace or remove an existing file
\* except through the race on the existence check: the file touched is the
\* destination of the acting ingestion, which found that name free when it
\* resolved it. (That both can find it free and both save is C21_Witness.)
C21_OverwriteOnlyAfterPassedCheck ==
    [][\A name \in DOMAIN disk :
          (name \notin DOMAIN disk' \/ disk'[name] # disk[name]) =>
              \E id \in Running :
                  /\ worker[id].pc \in PfbPcs
                  /\ worker[id].file_path = name
                  /\ name \notin worker[id].dir_before]_vars

\* C21 witness: two ingestions both resolved photo.jpg while it did not
\* exist, both saved, both count their file as uploaded, and the directory
\* holds one file.
C21_Witness ==
    \E a, b \in Running :
        /\ a # b
        /\ \E j \in DOMAIN worker[a].log, k \in DOMAIN worker[b].log :
              LET e == worker[a].log[j]
                  f == worker[b].log[k]
              IN
              /\ e.outcome = "uploaded"
              /\ f.outcome = "uploaded"
              /\ e.file_path = f.file_path
              /\ e.file_path \notin e.dir_before
              /\ f.file_path \notin f.dir_before
        /\ worker[a].uploaded_count + worker[b].uploaded_count = 2
        /\ Cardinality(DOMAIN disk) = 1

\* C23: a submission gets an id that no record, worker or thread ever had;
\* a record changes only in a step of the worker of its own id, and that
\* step changes no other record; a thread is started only by a submission,
\* for its own id, and the running workers on the background path are
\* exactly those with a started thread.
C23_OneWriterPerRecord ==
    /\ [][\A id \in DOMAIN worker' \ DOMAIN worker :
            /\ id \notin DOMAIN batch_upload_status
            /\ id \notin DOMAIN terminal_at
            /\ id \notin threads_started
            /\ DOMAIN worker' = DOMAIN worker \cup {id}
            /\ DOMAIN batch_upload_status' = DOMAIN batch_upload_status \cup {id}]_vars
    /\ [][\A id \in Stored :
            (id \in DOMAIN batch_upload_status'
             /\ batch_upload_status'[id] # batch_upload_status[id]) =>
                /\ worker'[id] # worker[id]
                /\ \A other \in DOMAIN worker \ {id} : worker'[other] = worker[other]
                /\ \A other \in Stored \ {id} :
                      /\ other \in DOMAIN batch_upload_status'
                      /\ batch_upload_status'[other] = batch_upload_status[other]]_vars
    /\ [][\A id \in threads_started' \ threads_started :
            /\ id \notin DOMAIN worker
            /\ id \in DOMAIN worker'
            /\ threads_started' = threads_started \cup {id}]_vars
    /\ [](\A id \in DOMAIN worker :
            worker[id].path = "background" <=> id \in threads_started)

\* C23 witness: the background worker of batch 1 and the request thread of
\* batch 2 are both in their chunk loops, and each has written its own
\* record only.
C23_Witness ==
    /\ threads_started = {1}
    /\ {1, 2} \subseteq Running
    /\ {1, 2} \subseteq Stored
    /\ worker[1].path = "background"
    /\ worker[2].path = "synchronous"
    /\ Rec(1).current_batch = 2
    /\ Rec(1).uploaded = 1
    /\ Rec(2).current_batch = 1
    /\ Rec(2).uploaded = 0
    /\ worker[2].pc = "add_skipped"

\* the orientation could not be read: no EXIF, or the parser raised
ExifFailures == {"no_exif", "raises_caught", "raises_other"}

\* C24: with auto-rotate on, resize_image returns normally for a readable
\* image whose orientation cannot be read, whatever the failure: the image
\* is left unrotated, fitted and saved.
C24_ExifFailureNeverFailsNormalization ==
    (image.pc \in {"returned", "raised"}
     /\ image.decodes /\ image.auto_rotate /\ image.exif \in ExifFailures) =>
        /\ image.pc = "returned"
        /\ image.oriented = image.original
        /\ image.size = thumbnail(image.original, image.max)

\* C26: the size resize_image saves fits the configured maximum, is no
\* larger than the size the image had at line 272 (after the orientation
\* was applied), equals it when that already fits, and otherwise keeps the
\* binding side at its bound and the other side within one pixel of the
\* exact proportional value; 4000x3000 under 1920x1080 becomes 1440x1080.
C26_ResizeFitsAndKeepsAspect ==
    image.pc = "returned" =>
        LET w == image.oriented[1]
            h == image.oriented[2]
            W == image.max[1]
            H == image.max[2]
            w2 == image.size[1]
            h2 == image.size[2]
        IN
        /\ 1 <= w2 /\ w2 <= W /\ w2 <= w
        /\ 1 <= h2 /\ h2 <= H /\ h2 <= h
        /\ (w <= W /\ h <= H) => image.size = image.oriented
        /\ ~(w <= W /\ h <= H) =>
              IF W * h <= H * w
              THEN w2 = W /\ Abs(h2 * w - h * W) < w
              ELSE h2 = H /\ Abs(w2 * h - w * H) < h
        /\ (image.oriented = LargePhoto
             /\ image.max = <<DefaultMaxWidth, DefaultMaxHeight>>) =>
                image.size = <<1440, 1080>>

\* C26 witness: the 4000x3000 photo has been fitted into 1920x1080.
C26_Witness ==
    /\ image.pc = "returned"
    /\ image.original = LargePhoto
    /\ image.oriented = LargePhoto
    /\ image.max = <<DefaultMaxWidth, DefaultMaxHeight>>
    /\ image.size[1] <= DefaultMaxWidth
    /\ image.size[2] = DefaultMaxHeight
    /\ image.size[1] * 3 = image.size[2] * 4

\* a name that stays in the upload directory when joined to it: not empty,
\* not "." or "..", made of letters, digits, "_", "." and "-" only, so
\* without any separator
InsideUploadFolder(name) ==
    /\ name # <<>>
    /\ name \notin {<<".">>, <<".", ".">>}
    /\ \A i \in DOMAIN name : name[i] \in SafeChars

\* name is base or one of base's stem_k.ext variants
IsVariantOf(name, base) ==
    \/ name = base
    \/ \E k \in 1..(MaxFiles + 2) :
          name = Probe(splitext(base)[1], k, splitext(base)[2])

\* C25: whatever names the client sends, every path the ingestor resolves,
\* writes or removes is the sanitized name or one of its stem_k.ext
\* variants and stays directly inside the upload directory, and so does
\* every file of the directory.
C25_WritesStayInUploadFolder ==
    /\ [](\A name \in DOMAIN disk : InsideUploadFolder(name))
    /\ [](\A id \in Running :
            /\ worker[id].file_path # <<>> =>
                  /\ InsideUploadFolder(worker[id].file_path)
                  /\ IsVariantOf(worker[id].file_path,
                                 secure_filename(worker[id].files[worker[id].i].filename))
            /\ \A j \in DOMAIN worker[id].log :
                  LET e == worker[id].log[j] IN
                  e.file_path # <<>> =>
                      /\ InsideUploadFolder(e.file_path)
                      /\ IsVariantOf(e.file_path, secure_filename(e.filename)))
    /\ [][\A name \in DOMAIN disk \cup DOMAIN disk' :
            (name \notin DOMAIN disk \/ name \notin DOMAIN disk'
             \/ disk'[name] # disk[name]) => InsideUploadFolder(name)]_vars

\* C25 witness: /p.jpg was stored as p.jpg and ../p.jpg, sent after it
\* in the same request, as p_1.jpg.
C25_Witness ==
    \E id \in Running :
        LET log == worker[id].log IN
        /\ Len(log) >= 2
        /\ log[1].filename = Absolute
        /\ log[1].outcome = "uploaded"
        /\ log[1].file_path = <<"p", ".", "j", "p", "g">>
        /\ log[2].filename = Traversal
        /\ log[2].outcome = "uploaded"
        /\ log[2].file_path = <<"p", "_", "1", ".", "j", "p", "g">>
        /\ {log[1].file_path, log[2].file_path} \subseteq DOMAIN disk

\* how many files of the chunks before `chunks` had the given outcome
Tally(log, outcome, chunks) ==
    Cardinality({j \in DOMAIN log : log[j].outcome = outcome /\ log[j].chunk < chunks})

\* the statements after the chunk loop, in program order
AfterLoopPcs == <<"mark_completed", "mark_status", "mark_end_time",
                  "feedback", "start_timer", "respond">>

\* the statement named by pc comes after the one named by other
IsAfter(pc, other) ==
    \E m, n \in DOMAIN AfterLoopPcs :
        AfterLoopPcs[m] = pc /\ AfterLoopPcs[n] = other /\ m > n

\* what the record must hold given where the worker is and what happened
\* to the files so far; the path is not consulted
ExpectedRecord(w) ==
    LET added == w.chunks_added
        in_chunk == w.pc \in PfbPcs \cup {"add_uploaded", "add_skipped", "add_errors"}
    IN
    [ total_files   |-> Len(w.files),
      total_batches |-> CeilDiv(Len(w.files), w.batch_size),
      current_batch |-> IF in_chunk THEN added + 1 ELSE added,
      uploaded      |-> Tally(w.log, "uploaded",
                              IF w.pc \in {"add_skipped", "add_errors"}
                              THEN added + 1 ELSE added),
      skipped       |-> Tally(w.log, "skipped",
                              IF w.pc = "add_errors" THEN added + 1 ELSE added),
      errors        |-> Tally(w.log, "error", added),
      completed     |-> IsAfter(w.pc, "mark_completed"),
      status        |-> IF IsAfter(w.pc, "mark_status")
                        THEN "completed" ELSE "processing" ]

\* the fields of a record other than its times
Timeless(rec) == [k \in DOMAIN rec \ {"start_time", "end_time"} |-> rec[k]]

====
